---- MODULE Spec2Model ----
(***************************************************************************)
(* Model of app.py (dashboard SIGE Enturmação): the CSV loader with its    *)
(* numeric normalisation, the stage extractor, the filter step of main,    *)
(* and the two XLSX exporters.                                             *)
(*                                                                         *)
(* Texts that the program inspects character by character (the cells of    *)
(* the file, the municipality names) are sequences of one-character        *)
(* strings; column names and the fixed labels of the sheets are plain      *)
(* strings.                                                                *)
(***************************************************************************)
EXTENDS Integers, Sequences, FiniteSets, TLC

VARIABLES
    pc,             \* position in the run of the specification at hand
    desc,           \* argument of extrair_etapa
    etapa,          \* value returned by extrair_etapa
    arquivo,        \* the CSV file at ARQUIVO_CSV
    retorno,        \* what carregar_csv returned: "None" or "df"
    df,             \* main's df: the table loaded, then with its Etapa column
    sel,            \* the sidebar's selection: sel_municipio, sel_etapas, sel_status
    df_filtrado,    \* main's df_filtrado
    df_refiltrado,  \* the filter step applied to df_filtrado under the same selection
    tabela,         \* the table handed to the exporters (main's df_exibir)
    filtros_info,   \* the filter descriptions handed to the exporters
    data_extracao,  \* the stripped text of ultima_extracao.txt ("" when there is none)
    horas,          \* the readings of datetime.now() taken so far by the exporters
    xlsx,           \* the workbook gerar_xlsx returned
    zip             \* the archive gerar_xlsx_por_municipio returned: its entries in order

varsMain == <<pc, desc, etapa, arquivo, retorno, df, sel, df_filtrado, df_refiltrado>>

varsMainSemPc == <<desc, etapa, arquivo, retorno, df, sel, df_filtrado, df_refiltrado>>

varsXlsx == <<tabela, filtros_info, data_extracao, horas, xlsx, zip>>

vars == <<varsMain, varsXlsx>>

(***************************************************************************)
(* Bounds                                                                  *)
(***************************************************************************)
MaxDescLen == 4

MaxCelulas == 2

MaxLinhas == 2

MaxLinhasXlsx == 3

(***************************************************************************)
(* Generic helpers                                                         *)
(***************************************************************************)
Range(s) == {s[i] : i \in 1..Len(s)}

Min(a, b) == IF a < b THEN a ELSE b

Max(a, b) == IF a > b THEN a ELSE b

\* The missing value (None / float NaN): distinct from every text, since a
\* text is a sequence of one-character strings.
NaN == <<"NaN">>

\* Characters str.strip() removes.
Espacos == {" ", "\t", "\n"}

\* str.strip()
RECURSIVE LStrip(_)
LStrip(s) == IF s # <<>> /\ Head(s) \in Espacos THEN LStrip(Tail(s)) ELSE s

RECURSIVE RStrip(_)
RStrip(s) ==
    IF s # <<>> /\ s[Len(s)] \in Espacos THEN RStrip(SubSeq(s, 1, Len(s) - 1)) ELSE s

Strip(s) == RStrip(LStrip(s))

\* Positions at which the pattern p occurs in s.
Ocorrencias(s, p) ==
    {i \in 1..(Len(s) - Len(p) + 1) : SubSeq(s, i, i + Len(p) - 1) = p}

\* p in s
Contem(s, p) == Ocorrencias(s, p) # {}

\* s.split(p)[0]: the text before the first occurrence of p (all of s if none).
SplitPrimeiro(s, p) ==
    IF Contem(s, p)
    THEN LET i == CHOOSE k \in Ocorrencias(s, p) : \A j \in Ocorrencias(s, p) : k <= j
         IN  SubSeq(s, 1, i - 1)
    ELSE s

\* s.rsplit(p, 1)[-1]: the text after the last occurrence of p (all of s if none).
RSplitUltimo(s, p) ==
    IF Contem(s, p)
    THEN LET i == CHOOSE k \in Ocorrencias(s, p) : \A j \in Ocorrencias(s, p) : k >= j
         IN  SubSeq(s, i + Len(p), Len(s))
    ELSE s

(***************************************************************************)
(* extrair_etapa                                                           *)
(***************************************************************************)
TOTAL_SECRETARIA ==
    <<"T","O","T","A","L"," ","S","E","C","R","E","T","A","R","I","A">>

TOTAL_ESCOLA == <<"T","o","t","a","l"," ","e","s","c","o","l","a">>

Pipe == <<"|">>

EspacoTracoEspaco == <<" ", "-", " ">>

\* A variant that never trims its argument before looking at it.
extrair_etapa_sem_strip(d) ==
    IF d = NaN THEN <<>>
    ELSE IF Contem(d, Pipe)
         THEN LET parte == Strip(SplitPrimeiro(d, Pipe))
              IN  IF Contem(parte, EspacoTracoEspaco)
                  THEN Strip(RSplitUltimo(parte, EspacoTracoEspaco))
                  ELSE parte
         ELSE IF d = TOTAL_SECRETARIA THEN TOTAL_SECRETARIA ELSE TOTAL_ESCOLA

\* A variant that takes the text after the last pipe instead of before the first.
extrair_etapa_ultimo_trecho(d) ==
    IF d = NaN THEN <<>>
    ELSE LET s == Strip(d)
         IN  IF Contem(s, Pipe)
             THEN LET parte == Strip(RSplitUltimo(s, Pipe))
                  IN  IF Contem(parte, EspacoTracoEspaco)
                      THEN Strip(RSplitUltimo(parte, EspacoTracoEspaco))
                      ELSE parte
             ELSE IF s = TOTAL_SECRETARIA THEN TOTAL_SECRETARIA ELSE TOTAL_ESCOLA

extrair_etapa(d) ==
    IF d = NaN THEN <<>>
    ELSE LET s == Strip(d)
         IN  IF Contem(s, Pipe)
             THEN LET parte == Strip(SplitPrimeiro(s, Pipe))
                  IN  IF Contem(parte, EspacoTracoEspaco)
                      THEN Strip(RSplitUltimo(parte, EspacoTracoEspaco))
                      ELSE parte
             ELSE IF s = TOTAL_SECRETARIA THEN TOTAL_SECRETARIA ELSE TOTAL_ESCOLA

(***************************************************************************)
(* Numbers and their decimal texts                                         *)
(***************************************************************************)
Digitos == {"0", "1", "2", "3", "4", "5", "6", "7", "8", "9"}

ValorDigito(c) ==
    CASE c = "0" -> 0 [] c = "1" -> 1 [] c = "2" -> 2 [] c = "3" -> 3
      [] c = "4" -> 4 [] c = "5" -> 5 [] c = "6" -> 6 [] c = "7" -> 7
      [] c = "8" -> 8 [] c = "9" -> 9

TextoDigito(d) ==
    CASE d = 0 -> "0" [] d = 1 -> "1" [] d = 2 -> "2" [] d = 3 -> "3"
      [] d = 4 -> "4" [] d = 5 -> "5" [] d = 6 -> "6" [] d = 7 -> "7"
      [] d = 8 -> "8" [] d = 9 -> "9"

SoDigitos(s) == s # <<>> /\ \A i \in 1..Len(s) : s[i] \in Digitos

\* Value of a non-empty text of digits (leading zeros allowed).
RECURSIVE ValorInt(_)
ValorInt(s) ==
    IF s = <<>> THEN 0
    ELSE 10 * ValorInt(SubSeq(s, 1, Len(s) - 1)) + ValorDigito(s[Len(s)])

\* str(n) for an integer n
RECURSIVE TextoNat(_)
TextoNat(n) ==
    IF n < 10 THEN <<TextoDigito(n)>>
    ELSE TextoNat(n \div 10) \o <<TextoDigito(n % 10)>>

TextoInt(n) == IF n < 0 THEN <<"-">> \o TextoNat(-n) ELSE TextoNat(n)

\* The text without a leading minus sign, and whether it had one.
SemSinal(s) == IF s # <<>> /\ Head(s) = "-" THEN Tail(s) ELSE s

TemSinal(s) == s # <<>> /\ Head(s) = "-"

\* Trailing zeros of a fraction removed, as the shortest repr of a float has none.
RECURSIVE SemZerosFinais(_)
SemZerosFinais(s) ==
    IF s # <<>> /\ s[Len(s)] = "0" THEN SemZerosFinais(SubSeq(s, 1, Len(s) - 1)) ELSE s

(***************************************************************************)
(* pd.read_csv: missing cells and the type inferred for each column        *)
(***************************************************************************)
\* A field the line does not have (the line is shorter than the header).
Ausente == <<"<ausente>">>

\* Texts read_csv takes for a missing value (its default na_values), among
\* them the empty cell.
ValoresNA ==
    { <<>>, <<"N","a","N">>, <<"n","a","n">>, <<"N","A">>, <<"N","/","A">>,
      <<"n","/","a">>, <<"N","U","L","L">>, <<"n","u","l","l">>,
      <<"N","o","n","e">>, <<"<","N","A",">">>, <<"#","N","/","A">> }

EhNA(bruto) == bruto = Ausente \/ bruto \in ValoresNA

\* Spellings of infinity accepted by the float parsers.
TextosInfinito ==
    { <<"i","n","f">>, <<"I","n","f">>, <<"I","N","F">>,
      <<"i","n","f","i","n","i","t","y">>, <<"I","n","f","i","n","i","t","y">> }

EhInteiro(s) == SoDigitos(SemSinal(s))

\* digits '.' digits with at least one digit in all
EhDecimal(s) ==
    LET t == SemSinal(s)
        pontos == {i \in 1..Len(t) : t[i] = "."}
    IN  /\ Cardinality(pontos) = 1
        /\ Len(t) >= 2
        /\ \A i \in 1..Len(t) : t[i] \in Digitos \cup {"."}

EhInfinito(s) == SemSinal(s) \in TextosInfinito

\* A float64: not-a-number, an infinity, or a finite value held as its
\* integer part and its fraction digits (no trailing zeros).
FloatNaN == [classe |-> "nan", neg |-> FALSE, int |-> 0, frac |-> <<>>]

FloatInf(neg) == [classe |-> "inf", neg |-> neg, int |-> 0, frac |-> <<>>]

FloatFin(neg, int, frac) ==
    [classe |-> "fin", neg |-> neg, int |-> int, frac |-> SemZerosFinais(frac)]

\* The float a cell parses to.
ParaFloat(bruto) ==
    IF EhNA(bruto) THEN FloatNaN
    ELSE IF EhInfinito(bruto) THEN FloatInf(TemSinal(bruto))
    ELSE IF EhInteiro(bruto)
         THEN FloatFin(TemSinal(bruto), ValorInt(SemSinal(bruto)), <<>>)
    ELSE LET t == SemSinal(bruto)
             p == CHOOSE i \in 1..Len(t) : t[i] = "."
         IN  FloatFin(TemSinal(bruto),
                      ValorInt(SubSeq(t, 1, p - 1)),
                      SubSeq(t, p + 1, Len(t)))

ParaInt(bruto) ==
    IF TemSinal(bruto) THEN 0 - ValorInt(SemSinal(bruto)) ELSE ValorInt(bruto)

\* The dtype read_csv infers for a column of raw cells, and the column's values.
InferirColuna(brutos) ==
    LET n == Len(brutos)
        presentes == {i \in 1..n : ~EhNA(brutos[i])}
    IN  IF n > 0 /\ presentes = 1..n /\ \A i \in presentes : EhInteiro(brutos[i])
        THEN [dtype |-> "int64", valores |-> [i \in 1..n |-> ParaInt(brutos[i])]]
        ELSE IF n > 0 /\ \A i \in presentes :
                    EhInteiro(brutos[i]) \/ EhDecimal(brutos[i]) \/ EhInfinito(brutos[i])
        THEN [dtype |-> "float64", valores |-> [i \in 1..n |-> ParaFloat(brutos[i])]]
        ELSE [dtype |-> "object",
              valores |-> [i \in 1..n |-> IF EhNA(brutos[i]) THEN NaN ELSE brutos[i]]]

\* pd.read_csv(caminho, sep=";"): a DataFrame with a RangeIndex, the header's
\* columns and each column under its inferred dtype.
LerCsv(arq) ==
    LET n == Len(arq.linhas)
        nomes == Range(arq.colunas)
        inf == [c \in nomes |-> InferirColuna([i \in 1..n |-> arq.linhas[i][c]])]
    IN  [columns |-> arq.colunas,
         index |-> [i \in 1..n |-> i - 1],
         dtypes |-> [c \in nomes |-> inf[c].dtype],
         data |-> [c \in nomes |-> inf[c].valores]]

(***************************************************************************)
(* Series.astype(str), str.replace, pd.to_numeric, fillna(0).astype(int)   *)
(***************************************************************************)
TextoFloat(f) ==
    IF f.classe = "nan" THEN <<"n","a","n">>
    ELSE IF f.classe = "inf"
         THEN (IF f.neg THEN <<"-">> ELSE <<>>) \o <<"i","n","f">>
    ELSE (IF f.neg THEN <<"-">> ELSE <<>>) \o TextoNat(f.int) \o <<".">>
         \o (IF f.frac = <<>> THEN <<"0">> ELSE f.frac)

\* str(v) of a value of a column of the given dtype
AsTypeStr(dtype, v) ==
    IF dtype = "int64" THEN TextoInt(v)
    ELSE IF dtype = "float64" THEN TextoFloat(v)
    ELSE IF v = NaN THEN <<"n","a","n">> ELSE v

\* str.replace(".", "", regex=False)
RECURSIVE RemoverPontos(_)
RemoverPontos(s) ==
    IF s = <<>> THEN <<>>
    ELSE (IF Head(s) = "." THEN <<>> ELSE <<Head(s)>>) \o RemoverPontos(Tail(s))

\* str.replace("-", "0", regex=False)
TracoParaZero(s) == [i \in 1..Len(s) |-> IF s[i] = "-" THEN "0" ELSE s[i]]

\* pd.to_numeric(errors="coerce") of one text that holds no '.' and no '-',
\* then fillna(0): a number, or infinity.
ParaNumerico(t) ==
    IF SoDigitos(t) THEN [inf |-> FALSE, valor |-> ValorInt(t)]
    ELSE IF t \in TextosInfinito THEN [inf |-> TRUE, valor |-> 0]
    ELSE [inf |-> FALSE, valor |-> 0]

\* The whole expression of line 56 on one value of a column.
NormalizarValor(dtype, v) ==
    ParaNumerico(TracoParaZero(RemoverPontos(AsTypeStr(dtype, v))))

COLUNAS_NUMERICAS ==
    <<"Mat. Total", "Não Enturmados", "Enturmados", "Quantidade de Turmas",
      "Mat. Presencial", "Mat. Semipresencial">>

\* The loop of lines 54-56 over one DataFrame: every measure column present is
\* replaced by its normalised integers. astype(int) raises on an infinity.
ColunasANormalizar(d) == Range(COLUNAS_NUMERICAS) \cap Range(d.columns)

NormalizacaoLevanta(d) ==
    \E c \in ColunasANormalizar(d) : \E i \in 1..Len(d.index) :
        NormalizarValor(d.dtypes[c], d.data[c][i]).inf

NormalizarColunas(d) ==
    [d EXCEPT
        !.dtypes = [c \in DOMAIN d.dtypes |->
                        IF c \in ColunasANormalizar(d) THEN "int64" ELSE d.dtypes[c]],
        !.data = [c \in DOMAIN d.data |->
                        IF c \in ColunasANormalizar(d)
                        THEN [i \in 1..Len(d.index) |->
                                  NormalizarValor(d.dtypes[c], d.data[c][i]).valor]
                        ELSE d.data[c]]]

DataFrameVazio == [columns |-> <<>>, index |-> <<>>, dtypes |-> <<>>, data |-> <<>>]

\* carregar_csv: what it returns ("None" or "df") and the table returned.
carregar_csv(arq) ==
    IF ~arq.existe THEN [retorno |-> "None", df |-> DataFrameVazio]
    ELSE IF arq.corrompido THEN [retorno |-> "None", df |-> DataFrameVazio]
    ELSE LET lido == LerCsv(arq)
         IN  IF NormalizacaoLevanta(lido)
             THEN [retorno |-> "None", df |-> DataFrameVazio]
             ELSE [retorno |-> "df", df |-> NormalizarColunas(lido)]

(***************************************************************************)
(* main: the Etapa column, the sidebar's options and the filter step       *)
(***************************************************************************)
\* The elements of s at the positions where the mask holds, in order.
RECURSIVE ManterOnde(_, _)
ManterOnde(s, m) ==
    IF s = <<>> THEN <<>>
    ELSE (IF Head(m) THEN <<Head(s)>> ELSE <<>>) \o ManterOnde(Tail(s), Tail(m))

\* d[mask]: boolean indexing keeps index labels, columns and dtypes.
IndexarPorMascara(d, m) ==
    [d EXCEPT !.index = ManterOnde(d.index, m),
              !.data = [c \in DOMAIN d.data |-> ManterOnde(d.data[c], m)]]

\* pd.isna(v) for a value of a column of the given dtype
EhNaN(dtype, v) ==
    IF dtype = "object" THEN v = NaN
    ELSE IF dtype = "float64" THEN v.classe = "nan"
    ELSE FALSE

\* extrair_etapa on one value of the Descricao column (str(desc) of a number
\* is its text).
EtapaDoValor(dtype, v) ==
    IF EhNaN(dtype, v) THEN <<>>
    ELSE extrair_etapa(AsTypeStr(dtype, v))

\* df = df.copy(); df["Etapa"] = df["Descricao"].map(extrair_etapa)
ComEtapa(d) ==
    LET n == Len(d.index)
        col == [i \in 1..n |-> EtapaDoValor(d.dtypes["Descricao"], d.data["Descricao"][i])]
        nomes == DOMAIN d.data \cup {"Etapa"}
    IN  [columns |-> IF "Etapa" \in Range(d.columns) THEN d.columns
                     ELSE Append(d.columns, "Etapa"),
         index |-> d.index,
         dtypes |-> [c \in nomes |-> IF c = "Etapa" THEN "object" ELSE d.dtypes[c]],
         data |-> [c \in nomes |-> IF c = "Etapa" THEN col ELSE d.data[c]]]

TODOS ==
    <<"T","o","d","o","s"," ","o","s"," ","M","u","n","i","c","í","p","i","o","s">>

\* The values a column holds that are not missing: dropna().unique()
ValoresPresentes(d, c) ==
    {d.data[c][i] : i \in {k \in 1..Len(d.index) : ~EhNaN(d.dtypes[c], d.data[c][k])}}

\* The options of the three widgets (the order in which a widget lists them
\* does not reach the filter).
OpcoesMunicipio(d) == {TODOS} \cup ValoresPresentes(d, "Municipio")

OpcoesEtapa(d) == {e \in ValoresPresentes(d, "Etapa") : Strip(e) # <<>>}

OpcoesStatus(d) == ValoresPresentes(d, "Status")

Selecoes(d) ==
    [municipio : OpcoesMunicipio(d),
     etapas : SUBSET OpcoesEtapa(d),
     status : SUBSET OpcoesStatus(d)]

\* A variant that reads an empty multiselect as "match nothing".
MascaraVazioNadaCasa(d, s) ==
    [i \in 1..Len(d.index) |->
        /\ (s.municipio # TODOS => d.data["Municipio"][i] = s.municipio)
        /\ d.data["Etapa"][i] \in s.etapas
        /\ d.data["Status"][i] \in s.status]

\* Lines 303-309: the mask, one boolean per row.
Mascara(d, s) ==
    [i \in 1..Len(d.index) |->
        /\ (s.municipio # TODOS => d.data["Municipio"][i] = s.municipio)
        /\ (s.etapas # {} => d.data["Etapa"][i] \in s.etapas)
        /\ (s.status # {} => d.data["Status"][i] \in s.status)]

\* A variant whose mask carries a fresh RangeIndex instead of d.index, so that
\* d[mask] pairs each row with the mask entry found under the row's label.
FiltrarMascaraSemIndice(d, s) ==
    LET m == Mascara(d, s)
        n == Len(d.index)
    IN  IndexarPorMascara(d, [i \in 1..n |-> d.index[i] + 1 <= n /\ m[d.index[i] + 1]])

\* Lines 303-310: df_filtrado = df[mask]
Filtrar(d, s) == IndexarPorMascara(d, Mascara(d, s))

(***************************************************************************)
(* gerar_xlsx                                                              *)
(***************************************************************************)
LARGURA_MAXIMA == 40

HEADER_FILL == "1e3a5f"

YELLOW_FILL == "FFFF00"

RED_FILL == "FF6B6B"

SEM_FILL == "none"

TxtAtencao == <<"A","t","e","n","ç","ã","o">>

TxtCritica == <<"C","r","í","t","i","c","a">>

TxtNormal == <<"N","o","r","m","a","l">>

\* len(col) of the column names
ComprimentoNome ==
       ("Secretaria" :> 10) @@ ("Municipio" :> 9) @@ ("Descricao" :> 9)
    @@ ("Mat. Total" :> 10) @@ ("Não Enturmados" :> 14) @@ ("Enturmados" :> 10)
    @@ ("Quantidade de Turmas" :> 20) @@ ("Mat. Presencial" :> 15)
    @@ ("Mat. Semipresencial" :> 19) @@ ("Status" :> 6) @@ ("Etapa" :> 5)

\* The largest element of a non-empty set of numbers.
Maior(S) == CHOOSE x \in S : \A y \in S : y <= x

\* min(max(df[col].astype(str).map(len).max(), len(col)) + 2, 40). The max()
\* of an empty column is NaN, and both Python's max and min then return NaN.
LarguraColuna(d, c) ==
    LET n == Len(d.index)
    IN  IF n = 0 THEN [nan |-> TRUE, largura |-> 0]
        ELSE LET comprimentos == {Len(AsTypeStr(d.dtypes[c], d.data[c][i])) : i \in 1..n}
             IN  [nan |-> FALSE,
                  largura |-> Min(Max(Maior(comprimentos), ComprimentoNome[c]) + 2,
                                  LARGURA_MAXIMA)]

\* datetime.now().strftime("%d/%m/%Y às %H:%M") of a clock reading counted in
\* half minutes: the minute it falls in.
FormatarHora(t) == [minuto |-> t \div 2]

\* df.to_excel(writer, sheet_name='Relatório', index=False): the header row,
\* then one row of values per row of d, in d's order.
ValoresDaFolha(d) ==
    [i \in 1..Len(d.index) |-> [j \in 1..Len(d.columns) |-> d.data[d.columns[j]][i]]]

EstiloCabecalho ==
    [fill |-> HEADER_FILL, negrito |-> TRUE, cor |-> "FFFFFF", alinhamento |-> "center"]

\* The prefix of a filter line: the bullet U+2022 and a space.
MARCADOR == "(U+2022) "

\* The "Informações" sheet.
FolhaInformacoes(titulo, filtros, extracao, t) ==
    [A1 |-> titulo,
     A3 |-> "Data de Extração dos Dados:",
     B3 |-> IF extracao # "" THEN extracao ELSE "Não informada",
     A5 |-> "Data do Relatório:",
     B5 |-> FormatarHora(t),
     A7 |-> IF filtros # <<>> THEN "Filtros Aplicados:" ELSE "",
     A8 |-> [k \in 1..Len(filtros) |-> <<MARCADOR, filtros[k]>>]]

\* A variant whose colouring loop counts the sheet rows from 1, the header row.
gerar_xlsx_linha_errada(d, filtros, extracao, t) ==
    LET n == Len(d.index)
        m == Len(d.columns)
    IN  [folhas |-> <<"Informações", "Relatório">>,
         cabecalho |-> d.columns,
         estilo_cabecalho |-> EstiloCabecalho,
         linhas |-> ValoresDaFolha(d),
         larguras |-> [j \in 1..m |-> LarguraColuna(d, d.columns[j])],
         fills |-> [r \in 2..(n + 1) |-> [j \in 1..m |->
                        IF "Status" \in Range(d.columns) /\ r <= n
                        THEN IF d.data["Status"][r] = TxtAtencao THEN YELLOW_FILL
                             ELSE IF d.data["Status"][r] = TxtCritica THEN RED_FILL
                             ELSE SEM_FILL
                        ELSE SEM_FILL]],
         info |-> FolhaInformacoes(<<"Relatório SIGE - Mapa de Enturmação", <<>>>>,
                                   filtros, extracao, t)]

\* gerar_xlsx: the workbook. fills[r] are the fills of the cells of sheet row r
\* of "Relatório" (row 1 is the header, row i + 1 holds row i of d); larguras[j]
\* is the width of column chr(64 + j).
gerar_xlsx(d, filtros, extracao, t) ==
    LET n == Len(d.index)
        m == Len(d.columns)
    IN  [folhas |-> <<"Informações", "Relatório">>,
         cabecalho |-> d.columns,
         estilo_cabecalho |-> EstiloCabecalho,
         linhas |-> ValoresDaFolha(d),
         larguras |-> [j \in 1..m |-> LarguraColuna(d, d.columns[j])],
         fills |-> [r \in 2..(n + 1) |-> [j \in 1..m |->
                        IF "Status" \in Range(d.columns)
                        THEN IF d.data["Status"][r - 1] = TxtAtencao THEN YELLOW_FILL
                             ELSE IF d.data["Status"][r - 1] = TxtCritica THEN RED_FILL
                             ELSE SEM_FILL
                        ELSE SEM_FILL]],
         info |-> FolhaInformacoes(<<"Relatório SIGE - Mapa de Enturmação", <<>>>>,
                                   filtros, extracao, t)]

(***************************************************************************)
(* gerar_xlsx_por_municipio                                                *)
(***************************************************************************)
\* ord(c) of the characters of the municipality names
Codigo(c) ==
    CASE c = " " -> 32 [] c = "-" -> 45 [] c = "." -> 46
      [] c = "A" -> 65 [] c = "B" -> 66 [] c = "C" -> 67 [] c = "b" -> 98

\* a < b for two texts, as Python compares str
RECURSIVE TextoMenor(_, _)
TextoMenor(a, b) ==
    IF b = <<>> THEN FALSE
    ELSE IF a = <<>> THEN TRUE
    ELSE IF Head(a) = Head(b) THEN TextoMenor(Tail(a), Tail(b))
    ELSE Codigo(Head(a)) < Codigo(Head(b))

\* The values of a column that are not missing, each once, in order of first
\* appearance: dropna().unique()
RECURSIVE UnicosEmOrdem(_, _)
UnicosEmOrdem(s, vistos) ==
    IF s = <<>> THEN <<>>
    ELSE IF Head(s) = NaN \/ Head(s) \in vistos THEN UnicosEmOrdem(Tail(s), vistos)
    ELSE <<Head(s)>> \o UnicosEmOrdem(Tail(s), vistos \cup {Head(s)})

\* A variant that leaves the values in their order of first appearance.
OrdenadosSemOrdenar(s) == s

\* sorted(s) for a sequence of distinct texts
RECURSIVE Ordenados(_)
Ordenados(s) ==
    IF s = <<>> THEN <<>>
    ELSE LET i == CHOOSE k \in 1..Len(s) : \A j \in 1..Len(s) : ~TextoMenor(s[j], s[k])
         IN  <<s[i]>> \o Ordenados(SubSeq(s, 1, i - 1) \o SubSeq(s, i + 1, Len(s)))

SufixoXlsx == <<".", "x", "l", "s", "x">>

\* A variant that sizes the columns on the whole table instead of df_mun.
PlanilhaMunicipioLargurasGerais(d, municipio, filtros, extracao, t) ==
    LET df_mun == IndexarPorMascara(d, [i \in 1..Len(d.index) |->
                                            d.data["Municipio"][i] = municipio])
        n == Len(df_mun.index)
        m == Len(df_mun.columns)
    IN  [folhas |-> <<"Informações", "Relatório">>,
         cabecalho |-> df_mun.columns,
         estilo_cabecalho |-> EstiloCabecalho,
         linhas |-> ValoresDaFolha(df_mun),
         larguras |-> [j \in 1..m |-> LarguraColuna(d, d.columns[j])],
         fills |-> [r \in 2..(n + 1) |-> [j \in 1..m |->
                        IF "Status" \in Range(df_mun.columns)
                        THEN IF df_mun.data["Status"][r - 1] = TxtAtencao THEN YELLOW_FILL
                             ELSE IF df_mun.data["Status"][r - 1] = TxtCritica THEN RED_FILL
                             ELSE SEM_FILL
                        ELSE SEM_FILL]],
         info |-> FolhaInformacoes(<<"Relatório SIGE - ", municipio>>,
                                   filtros, extracao, t)]

\* The body of the loop of gerar_xlsx_por_municipio: the workbook of one
\* municipality, built on df_mun = df[df['Municipio'] == municipio].
PlanilhaMunicipio(d, municipio, filtros, extracao, t) ==
    LET df_mun == IndexarPorMascara(d, [i \in 1..Len(d.index) |->
                                            d.data["Municipio"][i] = municipio])
        n == Len(df_mun.index)
        m == Len(df_mun.columns)
    IN  [folhas |-> <<"Informações", "Relatório">>,
         cabecalho |-> df_mun.columns,
         estilo_cabecalho |-> EstiloCabecalho,
         linhas |-> ValoresDaFolha(df_mun),
         larguras |-> [j \in 1..m |-> LarguraColuna(df_mun, df_mun.columns[j])],
         fills |-> [r \in 2..(n + 1) |-> [j \in 1..m |->
                        IF "Status" \in Range(df_mun.columns)
                        THEN IF df_mun.data["Status"][r - 1] = TxtAtencao THEN YELLOW_FILL
                             ELSE IF df_mun.data["Status"][r - 1] = TxtCritica THEN RED_FILL
                             ELSE SEM_FILL
                        ELSE SEM_FILL]],
         info |-> FolhaInformacoes(<<"Relatório SIGE - ", municipio>>,
                                   filtros, extracao, t)]

\* sorted(df['Municipio'].dropna().unique())
MunicipiosOrdenados(d) == Ordenados(UnicosEmOrdem(d.data["Municipio"], {}))

\* gerar_xlsx_por_municipio: the entries of the archive in the order written;
\* ts[k] is the reading of datetime.now() in the k-th pass of the loop.
gerar_xlsx_por_municipio(d, filtros, extracao, ts) ==
    LET municipios == MunicipiosOrdenados(d)
    IN  [k \in 1..Len(municipios) |->
            [nome_arquivo |-> municipios[k] \o SufixoXlsx,
             conteudo |-> PlanilhaMunicipio(d, municipios[k], filtros, extracao, ts[k])]]

(***************************************************************************)
(* Inputs of the stage extractor                                           *)
(***************************************************************************)
DescEnsFund ==
    <<"E","n","s","."," ","F","u","n","d"," ","|"," ","E","F"," ","-"," ",
      "5","º"," ","A","n","o">>

DescEscolaX ==
    <<"E","s","c","o","l","a"," ","M","u","n","i","c","i","p","a","l"," ","X">>

DescA3Ano == <<"A"," ","-"," ","3","º"," ","A","n","o">>

DescCreche == <<"I","n","f"," ","-"," ","C","r","e","c","h","e"," ","|"," ","M">>

Txt5Ano == <<"5","º"," ","A","n","o">>

Txt3Ano == <<"3","º"," ","A","n","o">>

TxtEnsFund == <<"E","n","s","."," ","F","u","n","d">>

TxtCreche == <<"C","r","e","c","h","e">>

AlfabetoDesc == {"a", " ", "|", "-"}

DescricoesCurtas ==
    UNION {[1..n -> AlfabetoDesc] : n \in 0..MaxDescLen}

Descricoes ==
    DescricoesCurtas \cup
    { NaN, DescEnsFund, DescEscolaX, DescA3Ano, DescCreche, TOTAL_SECRETARIA,
      <<" ">> \o TOTAL_SECRETARIA, TOTAL_SECRETARIA \o <<" ">>,
      <<"\t">> \o TOTAL_SECRETARIA \o <<" ", " ">>,
      <<"X">> \o TOTAL_SECRETARIA, TOTAL_SECRETARIA \o <<" ", "|">>,
      <<"t","o","t","a","l"," ","s","e","c","r","e","t","a","r","i","a">> }

(***************************************************************************)
(* The files                                                               *)
(***************************************************************************)
TxtY == <<"Y">>

TxtZ == <<"Z">>

Cel1200 == <<"1",".","2","0","0">>

CelTraco == <<"-">>

\* Raw cells of a measure column.
CelulasBrutas ==
    { <<>>, Ausente, CelTraco, <<"0">>, <<"5">>, <<"3","5","0">>,
      <<"1",".","0","0","0">>, Cel1200, <<"1",".","2","3","4">>,
      <<"1",".","2","3","4",".","5","6","7">>, <<"a","b","c">>, <<"i","n","f">> }

ArquivoInexistente ==
    [existe |-> FALSE, corrompido |-> FALSE, colunas |-> <<>>, linhas |-> <<>>]

ArquivoCorrompido ==
    [existe |-> TRUE, corrompido |-> TRUE, colunas |-> <<>>, linhas |-> <<>>]

ArquivoLegivel(colunas, linhas) ==
    [existe |-> TRUE, corrompido |-> FALSE, colunas |-> colunas, linhas |-> linhas]

\* Files of the loader's specification: one measure column of raw cells
\* beside a Municipio column, or no measure column at all.
ArquivosLoad ==
    {ArquivoInexistente, ArquivoCorrompido,
     ArquivoLegivel(<<"Municipio">>, <<[Municipio |-> TxtY]>>)}
    \cup
    {ArquivoLegivel(<<"Municipio", "Mat. Total">>,
                    [i \in 1..Len(cs) |->
                        ("Municipio" :> TxtY) @@ ("Mat. Total" :> cs[i])]) :
        cs \in UNION {[1..k -> CelulasBrutas] : k \in 1..MaxCelulas}}

\* Lines of main's files: a Mat. Total cell in thousands notation on the rows
\* of status Normal, the "no data" dash on the rows of status Atenção.
LinhasMain ==
    {  ("Municipio" :> m) @@ ("Descricao" :> d) @@ ("Mat. Total" :> ts[1])
    @@ ("Não Enturmados" :> CelTraco) @@ ("Status" :> ts[2]) :
        m \in {TxtY, TxtZ, <<>>}, d \in {DescA3Ano, DescCreche},
        ts \in {<<Cel1200, TxtNormal>>, <<CelTraco, TxtAtencao>>} }

ColunasMain == <<"Municipio", "Descricao", "Mat. Total", "Não Enturmados", "Status">>

\* Files of main's specification.
ArquivosMain ==
    {ArquivoInexistente}
    \cup {ArquivoLegivel(ColunasMain, ls) :
            ls \in UNION {[1..n -> LinhasMain] : n \in 0..MaxLinhas}}

SelecaoInicial == [municipio |-> TODOS, etapas |-> {}, status |-> {}]

TxtA == <<"A">>

TxtB == <<"B">>

TxtC == <<"C">>

\* Rows of the tables handed to the exporters: a Municipio (or none) and a Status.
LinhasXlsx ==
    {<<m, st>> : m \in {TxtA, TxtB}, st \in {TxtAtencao, TxtCritica, TxtNormal}}
    \cup {<<TxtC, TxtNormal>>, <<TxtC, TxtCritica>>, <<NaN, TxtAtencao>>, <<NaN, TxtNormal>>}

TabelaXlsx(ls) ==
    [columns |-> <<"Municipio", "Status">>,
     index |-> [i \in 1..Len(ls) |-> i - 1],
     dtypes |-> ("Municipio" :> "object") @@ ("Status" :> "object"),
     data |-> ("Municipio" :> [i \in 1..Len(ls) |-> ls[i][1]])
           @@ ("Status" :> [i \in 1..Len(ls) |-> ls[i][2]])]

TabelasXlsx ==
    {TabelaXlsx(ls) : ls \in UNION {[1..n -> LinhasXlsx] : n \in 0..MaxLinhasXlsx}}

FiltrosPossiveis == {<<>>, <<"Etapa(s): Creche", "Status: Atenção, Crítica">>}

ExtracoesPossiveis == {"", "05/11/2026 10:00"}

\* Readings of the clock, in half minutes.
Leituras == {1, 2}

PlanilhaNenhuma == [folhas |-> <<>>]

ExportadoresParados ==
    /\ tabela = DataFrameVazio
    /\ filtros_info = <<>>
    /\ data_extracao = ""
    /\ horas = <<>>
    /\ xlsx = PlanilhaNenhuma
    /\ zip = <<>>

(***************************************************************************)
(* Actions                                                                 *)
(***************************************************************************)
\* df = carregar_csv(ARQUIVO_CSV)
CarregarCsv ==
    /\ pc = "inicio"
    /\ LET r == carregar_csv(arquivo)
       IN  /\ retorno' = r.retorno
           /\ df' = r.df
    /\ pc' = "carregado"
    /\ UNCHANGED <<desc, etapa, arquivo, sel, df_filtrado, df_refiltrado, varsXlsx>>

\* if df is None or df.empty: ... return
SemDados ==
    /\ pc = "carregado"
    /\ (retorno = "None" \/ Len(df.index) = 0 \/ Len(df.columns) = 0)
    /\ pc' = "fim"
    /\ UNCHANGED <<desc, etapa, arquivo, retorno, df, sel, df_filtrado, df_refiltrado, varsXlsx>>

\* df = df.copy(); df["Etapa"] = df["Descricao"].map(extrair_etapa)
DerivarEtapa ==
    /\ pc = "carregado"
    /\ ~(retorno = "None" \/ Len(df.index) = 0 \/ Len(df.columns) = 0)
    /\ df' = ComEtapa(df)
    /\ pc' = "etapa"
    /\ UNCHANGED <<desc, etapa, arquivo, retorno, sel, df_filtrado, df_refiltrado, varsXlsx>>

\* The three sidebar widgets return the user's selection among their options.
EscolherFiltros ==
    /\ pc = "etapa"
    /\ sel' \in Selecoes(df)
    /\ pc' = "filtros"
    /\ UNCHANGED <<desc, etapa, arquivo, retorno, df, df_filtrado, df_refiltrado, varsXlsx>>

\* mask = ...; df_filtrado = df[mask]
AplicarFiltros ==
    /\ pc = "filtros"
    /\ df_filtrado' = Filtrar(df, sel)
    /\ pc' = "filtrado"
    /\ UNCHANGED <<desc, etapa, arquivo, retorno, df, sel, df_refiltrado, varsXlsx>>

\* The same filter step on the table it produced, under the same selection.
ReaplicarFiltros ==
    /\ pc = "filtrado"
    /\ df_refiltrado' = Filtrar(df_filtrado, sel)
    /\ pc' = "refiltrado"
    /\ UNCHANGED <<desc, etapa, arquivo, retorno, df, sel, df_filtrado, varsXlsx>>

\* xlsx_buffer = gerar_xlsx(df_exibir, filtros_info)
ExportarConsolidado ==
    /\ pc = "exportar"
    /\ \E t \in Leituras :
        /\ xlsx' = gerar_xlsx(tabela, filtros_info, data_extracao, t)
        /\ horas' = <<t>>
    /\ pc' = "consolidado"
    /\ UNCHANGED <<varsMainSemPc, tabela, filtros_info, data_extracao, zip>>

\* zip_xlsx_buffer = gerar_xlsx_por_municipio(df_exibir, filtros_info): the
\* clock is read once in each pass of the loop and never runs backwards.
ExportarPorMunicipio ==
    /\ pc = "consolidado"
    /\ \E ts \in [1..Len(MunicipiosOrdenados(tabela)) -> Leituras] :
        /\ \A k \in 1..Len(ts) : horas[1] <= ts[k]
        /\ \A a, b \in 1..Len(ts) : a < b => ts[a] <= ts[b]
        /\ zip' = gerar_xlsx_por_municipio(tabela, filtros_info, data_extracao, ts)
        /\ horas' = horas \o ts
    /\ pc' = "por_municipio"
    /\ UNCHANGED <<varsMainSemPc, tabela, filtros_info, data_extracao, xlsx>>

(***************************************************************************)
(* Specification of the stage extractor: one call on one argument          *)
(***************************************************************************)
InitEtapa ==
    /\ pc = "etapa_chamada"
    /\ desc \in Descricoes
    /\ etapa = <<>>
    /\ arquivo = ArquivoInexistente
    /\ retorno = "pendente"
    /\ df = DataFrameVazio
    /\ sel = SelecaoInicial
    /\ df_filtrado = DataFrameVazio
    /\ df_refiltrado = DataFrameVazio
    /\ ExportadoresParados

ExtrairEtapa ==
    /\ pc = "etapa_chamada"
    /\ etapa' = extrair_etapa(desc)
    /\ pc' = "etapa_retorno"
    /\ UNCHANGED <<desc, arquivo, retorno, df, sel, df_filtrado, df_refiltrado, varsXlsx>>

NextEtapa == ExtrairEtapa

SpecEtapa == InitEtapa /\ [][NextEtapa]_vars

(***************************************************************************)
(* Specification of the loader: one call of carregar_csv on one file       *)
(***************************************************************************)
InitLoad ==
    /\ pc = "inicio"
    /\ arquivo \in ArquivosLoad
    /\ retorno = "pendente"
    /\ df = DataFrameVazio
    /\ sel = SelecaoInicial
    /\ df_filtrado = DataFrameVazio
    /\ df_refiltrado = DataFrameVazio
    /\ desc = <<>>
    /\ etapa = <<>>
    /\ ExportadoresParados

NextLoad == CarregarCsv

SpecLoad == InitLoad /\ [][NextLoad]_vars

(***************************************************************************)
(* Specification of main: load, derive Etapa, select, filter               *)
(***************************************************************************)
Init ==
    /\ pc = "inicio"
    /\ arquivo \in ArquivosMain
    /\ retorno = "pendente"
    /\ df = DataFrameVazio
    /\ sel = SelecaoInicial
    /\ df_filtrado = DataFrameVazio
    /\ df_refiltrado = DataFrameVazio
    /\ desc = <<>>
    /\ etapa = <<>>
    /\ ExportadoresParados

Next ==
    \/ CarregarCsv
    \/ SemDados
    \/ DerivarEtapa
    \/ EscolherFiltros
    \/ AplicarFiltros
    \/ ReaplicarFiltros

Spec == Init /\ [][Next]_vars

(***************************************************************************)
(* Specification of the exporters: the consolidated workbook, then the     *)
(* archive by municipality, of one table                                   *)
(***************************************************************************)
InitXlsx ==
    /\ pc = "exportar"
    /\ tabela \in TabelasXlsx
    /\ filtros_info \in FiltrosPossiveis
    /\ data_extracao \in ExtracoesPossiveis
    /\ horas = <<>>
    /\ xlsx = PlanilhaNenhuma
    /\ zip = <<>>
    /\ arquivo = ArquivoInexistente
    /\ retorno = "pendente"
    /\ df = DataFrameVazio
    /\ sel = SelecaoInicial
    /\ df_filtrado = DataFrameVazio
    /\ df_refiltrado = DataFrameVazio
    /\ desc = <<>>
    /\ etapa = <<>>

NextXlsx ==
    \/ ExportarConsolidado
    \/ ExportarPorMunicipio

SpecXlsx == InitXlsx /\ [][NextXlsx]_vars

(***************************************************************************)
(* Claims about the loader (SpecLoad)                                      *)
(***************************************************************************)
\* n written with '.' between its groups of three digits
RECURSIVE FormatarComPontos(_)
FormatarComPontos(n) ==
    IF n < 1000 THEN TextoNat(n)
    ELSE FormatarComPontos(n \div 1000) \o <<".">>
         \o <<TextoDigito((n \div 100) % 10), TextoDigito((n \div 10) % 10),
              TextoDigito(n % 10)>>

AmostraN == {0, 5, 350, 1000, 1200, 1234, 1234567}

LeituraConcluida ==
    /\ pc = "carregado"
    /\ arquivo.existe
    /\ ~arquivo.corrompido
    /\ "Mat. Total" \in Range(arquivo.colunas)

\* C1: in the table carregar_csv returns, the measure cell "1.234" is 1234, the
\* cells "-", missing and empty are 0, and the cell holding n written with '.'
\* as thousands separator is n, whatever the other cells of the column are.
C1_NormalizacaoNumerica ==
    (LeituraConcluida /\ retorno = "df") =>
        \A i \in 1..Len(arquivo.linhas) :
            LET c == arquivo.linhas[i]["Mat. Total"]
                v == df.data["Mat. Total"][i]
            IN  /\ (c = <<"1",".","2","3","4">> => v = 1234)
                /\ (c \in {CelTraco, Ausente, <<>>} => v = 0)
                /\ \A n \in AmostraN : (c = FormatarComPontos(n) => v = n)

\* A cell that is no number in any reading: it holds a character that is no
\* digit, '.' or '-', and spells neither a missing value nor an infinity.
CelulaIlegivel(c) ==
    /\ ~EhNA(c)
    /\ ~EhInfinito(c)
    /\ \E i \in 1..Len(c) : c[i] \notin Digitos \cup {".", "-"}

\* C7: carregar_csv returns None for a nonexistent path and for a file whose
\* parsing raises, and for a readable file whose measure column holds
\* unparseable cells it returns a table in which those cells are 0.
C7_CargaNuncaFalha ==
    pc = "carregado" =>
        /\ (~arquivo.existe => retorno = "None")
        /\ (arquivo.existe /\ arquivo.corrompido => retorno = "None")
        /\ (LeituraConcluida /\ (\E i \in 1..Len(arquivo.linhas) :
                                    CelulaIlegivel(arquivo.linhas[i]["Mat. Total"]))
            => /\ retorno = "df"
               /\ \A i \in 1..Len(arquivo.linhas) :
                     CelulaIlegivel(arquivo.linhas[i]["Mat. Total"])
                        => df.data["Mat. Total"][i] = 0)

(***************************************************************************)
(* Claims about extrair_etapa (SpecEtapa)                                  *)
(***************************************************************************)
\* C2 (as amended): extrair_etapa returns "Ens. Fund" for
\* "Ens. Fund | EF - 5º Ano", "TOTAL SECRETARIA" for "TOTAL SECRETARIA",
\* "Total escola" for "Escola Municipal X" and the empty text for a missing input.
C2_ExemplosEtapa ==
    pc = "etapa_retorno" =>
        /\ (desc = DescEnsFund => etapa = TxtEnsFund)
        /\ (desc = TOTAL_SECRETARIA => etapa = TOTAL_SECRETARIA)
        /\ (desc = DescEscolaX => etapa = TOTAL_ESCOLA)
        /\ (desc = NaN => etapa = <<>>)

\* C2 (as stated): the same, with "5º Ano" returned for "Ens. Fund | EF - 5º Ano".
C2_ExemplosEtapaOriginal ==
    pc = "etapa_retorno" =>
        /\ (desc = DescEnsFund => etapa = Txt5Ano)
        /\ (desc = TOTAL_SECRETARIA => etapa = TOTAL_SECRETARIA)
        /\ (desc = DescEscolaX => etapa = TOTAL_ESCOLA)
        /\ (desc = NaN => etapa = <<>>)

C2_Testemunha ==
    pc = "etapa_retorno" /\ desc = DescEnsFund /\ etapa = TxtEnsFund

SoEspacos(s) == \A i \in 1..Len(s) : s[i] \in Espacos

\* The text is "TOTAL SECRETARIA" with nothing but whitespace around it.
TotalSecretariaComMargens(d) ==
    \E i \in 1..Len(d) :
        LET j == i + Len(TOTAL_SECRETARIA) - 1
        IN  /\ j <= Len(d)
            /\ SubSeq(d, i, j) = TOTAL_SECRETARIA
            /\ SoEspacos(SubSeq(d, 1, i - 1))
            /\ SoEspacos(SubSeq(d, j + 1, Len(d)))

\* C8 (as amended): for a non-missing text without a pipe, extrair_etapa
\* returns "TOTAL SECRETARIA" exactly when the text, with leading and trailing
\* whitespace removed, is "TOTAL SECRETARIA", and "Total escola" otherwise.
C8_TotalSecretariaAparado ==
    (pc = "etapa_retorno" /\ desc # NaN /\ ~Contem(desc, Pipe)) =>
        /\ (TotalSecretariaComMargens(desc) => etapa = TOTAL_SECRETARIA)
        /\ (~TotalSecretariaComMargens(desc) => etapa = TOTAL_ESCOLA)

\* C8 (as stated): for a non-missing text without a pipe, extrair_etapa returns
\* "TOTAL SECRETARIA" only when the untrimmed text is exactly that, and
\* "Total escola" for every other text.
C8_TotalSecretariaExato ==
    (pc = "etapa_retorno" /\ desc # NaN /\ ~Contem(desc, Pipe)) =>
        /\ (desc = TOTAL_SECRETARIA => etapa = TOTAL_SECRETARIA)
        /\ (desc # TOTAL_SECRETARIA => etapa = TOTAL_ESCOLA)

C8_Testemunha ==
    /\ pc = "etapa_retorno"
    /\ desc = <<"\t">> \o TOTAL_SECRETARIA \o <<" ", " ">>
    /\ etapa = TOTAL_SECRETARIA

(***************************************************************************)
(* Claims about main (Spec)                                                *)
(***************************************************************************)
LinhaCenario ==
       ("Municipio" :> TxtY) @@ ("Descricao" :> DescA3Ano) @@ ("Mat. Total" :> Cel1200)
    @@ ("Não Enturmados" :> CelTraco) @@ ("Status" :> TxtNormal)

\* C3: the row with Descricao "A - 3º Ano", Mat. Total "1.200" and Não
\* Enturmados "-" loads to Mat. Total 1200 and Não Enturmados 0, gets Etapa
\* "3º Ano", is kept by the selection Etapa in {"3º Ano"} and is dropped by the
\* selection Etapa in {"Creche"}.
C3_Cenario ==
    \A i \in 1..Len(arquivo.linhas) :
        arquivo.linhas[i] = LinhaCenario =>
            /\ (pc \in {"carregado", "etapa", "filtros", "filtrado", "refiltrado"}
                    /\ retorno = "df"
                => /\ df.data["Mat. Total"][i] = 1200
                   /\ df.data["Não Enturmados"][i] = 0)
            /\ (pc \in {"etapa", "filtros", "filtrado", "refiltrado"}
                => df.data["Etapa"][i] = Txt3Ano)
            /\ (pc = "filtrado" /\ sel.municipio = TODOS /\ sel.status = {}
                => /\ (sel.etapas = {Txt3Ano} => (i - 1) \in Range(df_filtrado.index))
                   /\ (sel.etapas = {TxtCreche} => (i - 1) \notin Range(df_filtrado.index)))

\* Row i of d satisfies every active constraint of the selection s.
SatisfazSelecao(d, s, i) ==
    /\ (s.municipio = TODOS \/ d.data["Municipio"][i] = s.municipio)
    /\ (s.etapas = {} \/ \E e \in s.etapas : d.data["Etapa"][i] = e)
    /\ (s.status = {} \/ \E t \in s.status : d.data["Status"][i] = t)

\* C4: df_filtrado holds exactly the rows of df that satisfy all active
\* constraints, in their original order, df itself is as it was before the
\* step, and the empty selection gives df row for row.
C4_FiltroExato ==
    pc = "filtrado" =>
        LET n == Len(df.index)
            k == Len(df_filtrado.index)
        IN  /\ df = ComEtapa(carregar_csv(arquivo).df)
            /\ df_filtrado.columns = df.columns
            /\ Range(df_filtrado.index) =
                    {df.index[i] : i \in {j \in 1..n : SatisfazSelecao(df, sel, j)}}
            /\ \A a, b \in 1..k : a < b => df_filtrado.index[a] < df_filtrado.index[b]
            /\ \A a \in 1..k : \A c \in Range(df.columns) :
                    /\ Len(df_filtrado.data[c]) = k
                    /\ df_filtrado.data[c][a] = df.data[c][df_filtrado.index[a] + 1]
            /\ (sel = SelecaoInicial => df_filtrado = df)

C4_Testemunha ==
    /\ pc = "filtrado"
    /\ sel.municipio # TODOS
    /\ sel.etapas # {}
    /\ sel.status = {}
    /\ Len(df.index) = 2
    /\ df_filtrado.index = <<1>>

\* C5: filtering the already-filtered table with the same selection returns
\* that table again.
C5_FiltroIdempotente ==
    pc = "refiltrado" => df_refiltrado = df_filtrado

C5_Testemunha ==
    /\ pc = "refiltrado"
    /\ sel.status # {}
    /\ Len(df.index) = 2
    /\ df_filtrado.index = <<1>>
    /\ df_refiltrado.index = <<1>>

(***************************************************************************)
(* Claims about the exporters (SpecXlsx)                                   *)
(***************************************************************************)
MunicipiosPresentes(d) ==
    {d.data["Municipio"][i] : i \in 1..Len(d.index)} \ {NaN}

\* The entry name without its ".xlsx"
SemSufixo(nome) == SubSeq(nome, 1, Len(nome) - Len(SufixoXlsx))

NomesDoZip == [k \in 1..Len(zip) |-> zip[k].nome_arquivo]

\* C6: the archive holds exactly one entry per distinct non-missing Municipio,
\* named "<Municipio>.xlsx", in sorted order of the municipality names
\* ({"B","A","C"} gives A.xlsx, B.xlsx, C.xlsx), and no entry when the table has
\* no non-missing Municipio.
C6_EntradasDoZip ==
    pc = "por_municipio" =>
        /\ Len(zip) = Cardinality(MunicipiosPresentes(tabela))
        /\ Range(NomesDoZip) = {m \o SufixoXlsx : m \in MunicipiosPresentes(tabela)}
        /\ \A a, b \in 1..Len(zip) :
                a < b => TextoMenor(SemSufixo(NomesDoZip[a]), SemSufixo(NomesDoZip[b]))
        /\ (MunicipiosPresentes(tabela) = {TxtA, TxtB, TxtC}
                => NomesDoZip = << <<"A",".","x","l","s","x">>,
                                   <<"B",".","x","l","s","x">>,
                                   <<"C",".","x","l","s","x">> >>)
        /\ (MunicipiosPresentes(tabela) = {} => zip = <<>>)

C6_Testemunha ==
    /\ pc = "por_municipio"
    /\ tabela.data["Municipio"] = <<TxtB, TxtA, TxtC>>
    /\ Len(zip) = 3
    /\ zip[1].nome_arquivo = <<"A",".","x","l","s","x">>

CorDoStatus(st) ==
    IF st = TxtAtencao THEN YELLOW_FILL
    ELSE IF st = TxtCritica THEN RED_FILL
    ELSE SEM_FILL

\* C9: in the "Relatório" sheet the header row carries the column names in
\* order, sheet row i + 1 holds input row i, and every cell of that row is
\* yellow when the row's Status is "Atenção", red when it is "Crítica" and
\* unfilled otherwise.
C9_FillPorStatus ==
    pc \in {"consolidado", "por_municipio"} =>
        LET n == Len(tabela.index)
            m == Len(tabela.columns)
        IN  /\ xlsx.cabecalho = tabela.columns
            /\ Len(xlsx.linhas) = n
            /\ DOMAIN xlsx.fills = 2..(n + 1)
            /\ \A i \in 1..n :
                /\ \A j \in 1..m :
                        xlsx.linhas[i][j] = tabela.data[tabela.columns[j]][i]
                /\ \A j \in 1..m :
                        xlsx.fills[i + 1][j] = CorDoStatus(tabela.data["Status"][i])

C9_Testemunha ==
    /\ pc = "consolidado"
    /\ tabela.data["Status"] = <<TxtAtencao, TxtCritica>>
    /\ xlsx.fills[2] = <<YELLOW_FILL, YELLOW_FILL>>
    /\ xlsx.fills[3] = <<RED_FILL, RED_FILL>>

\* The rows of d whose Municipio is g, in d's order.
SubTabela(d, g) ==
    IndexarPorMascara(d, [i \in 1..Len(d.index) |-> d.data["Municipio"][i] = g])

SemTitulo(w) == [w EXCEPT !.info.A1 = <<"", <<>>>>]

RECURSIVE TotalDeLinhas(_)
TotalDeLinhas(entradas) ==
    IF entradas = <<>> THEN 0
    ELSE Len(Head(entradas).conteudo.linhas) + TotalDeLinhas(Tail(entradas))

\* C10: the workbook stored as "<g>.xlsx" is the workbook gerar_xlsx produces,
\* at the same clock reading, for the rows whose Municipio is g, but for its
\* title cell, which names g; the entries together hold each row with a
\* non-missing Municipio once and no row with a missing Municipio.
C10_PlanilhaPorMunicipio ==
    pc = "por_municipio" =>
        /\ \A k \in 1..Len(zip) :
            LET g == SemSufixo(zip[k].nome_arquivo)
                w == zip[k].conteudo
                ref == gerar_xlsx(SubTabela(tabela, g), filtros_info, data_extracao,
                                  horas[k + 1])
            IN  /\ SemTitulo(w) = SemTitulo(ref)
                /\ w.info.A1 = <<"Relatório SIGE - ", g>>
                /\ w.folhas[1] = "Informações"
                /\ \A i \in 1..Len(w.linhas) : w.linhas[i][1] = g
        /\ \A a, b \in 1..Len(zip) : a # b => zip[a].nome_arquivo # zip[b].nome_arquivo
        /\ TotalDeLinhas(zip) =
                Cardinality({i \in 1..Len(tabela.index) :
                                tabela.data["Municipio"][i] # NaN})

C10_Testemunha ==
    /\ pc = "por_municipio"
    /\ tabela.data["Municipio"] = <<TxtB, NaN, TxtB>>
    /\ tabela.data["Status"] = <<TxtNormal, TxtNormal, TxtCritica>>
    /\ Len(zip) = 1
    /\ Len(zip[1].conteudo.linhas) = 2

====
